---- MODULE Spec2Model ----
(***************************************************************************)
(* A model of esbuild-plugin-html (html-plugin.ts):                        *)
(*   - the CSS url() scanner parseURLs, as a step machine (SpecScan);      *)
(*   - tag synthesis and placement of one emission (SpecSynth, SpecPlace); *)
(*   - asset discovery over the tags and the <style> texts (SpecAssets);   *)
(*   - the build-end handler across passes, with its Output Cache, its     *)
(*     Copy Ledger and the files it leaves on disk (Spec).                 *)
(* Texts are sequences of one-character strings; indices into a text are   *)
(* the 0-based indices of the source.                                      *)
(***************************************************************************)
EXTENDS Integers, Sequences, FiniteSets, TLC

VARIABLES
  \* ---- parseURLs ----
  text,      \* the scanned text
  index,     \* let index
  stack,     \* const stack: string[]
  urls,      \* const urls: string[]
  start,     \* const start (of the current capture)
  end,       \* let end (of the current capture)
  spc,       \* position in parseURLs: "idle", "search", "open", "capture", "done"
  steps,     \* loop bodies executed so far (outer and inner while)
  \* ---- htmlPlugin ----
  options,     \* the plugin's options and the build's initialOptions
  template,    \* parse(templateContent), with <head> and <body> ensured
  cssOutput,   \* const cssOutput of the last pass
  jsOutput,    \* const jsOutput of the last pass
  document,    \* the tree of the last pass, as left by the handler
  linkIndex,   \* const linkIndex of the last emission
  scriptIndex, \* const scriptIndex of the last emission
  element,     \* the element createScriptElement returned last
  hpc,         \* position of the plugin: "setup", "linked", "placed", "created",
               \* "discovered", "ready"
  assetQueue,  \* const assets: [string, string][] of the last pass
  outputCache, \* const outputCache = new Set<string>()
  ledger,      \* const modified = new Map<string, number>() of cachedCopyFile
  disk,        \* the output directory: the HTML file and the copied assets
  mtime,       \* stat.mtimeMs of each asset the template refers to
  last,        \* what the last pass did
  passes       \* the passes so far

scanVars == <<text, index, stack, urls, start, end, spc, steps>>

pluginVars ==
  <<options, template, cssOutput, jsOutput, document, linkIndex, scriptIndex,
    element, hpc, assetQueue>>

passVars == <<outputCache, ledger, disk, mtime, last, passes>>

vars == <<scanVars, pluginVars, passVars>>

----------------------------------------------------------------------------
(* Bounds *)

\* Texts of up to MaxParts fragments are scanned exhaustively.
MaxParts == 4

\* Templates with up to MaxHead children of <head> and MaxBody of <body>.
MaxHead == 3
MaxBody == 2

\* The build ends at most MaxPasses times, and the modification times of
\* the assets go up to MaxMtime.
MaxPasses == 3
MaxMtime == 2

----------------------------------------------------------------------------
(* Strings *)

\* text[i] of the source: undefined outside the text.
Undefined == "undefined"
At(t, i) == IF i >= 0 /\ i < Len(t) THEN t[i + 1] ELSE Undefined

Min(a, b) == IF a < b THEN a ELSE b
Max(a, b) == IF a > b THEN a ELSE b

\* String.prototype.slice(from, to) for from, to >= 0.
Slice(t, from, to) ==
  LET f == Min(from, Len(t))
      e == Min(to, Len(t))
  IN  IF f >= e THEN <<>> ELSE SubSeq(t, f + 1, e)

\* /\s/
Whitespace == {" ", "\n"}

\* String.prototype.trim()
RECURSIVE TrimLeft(_)
TrimLeft(t) ==
  IF t # <<>> /\ Head(t) \in Whitespace THEN TrimLeft(Tail(t)) ELSE t

RECURSIVE TrimRight(_)
TrimRight(t) ==
  IF t # <<>> /\ t[Len(t)] \in Whitespace
    THEN TrimRight(SubSeq(t, 1, Len(t) - 1))
    ELSE t

Trim(t) == TrimRight(TrimLeft(t))

\* text.indexOf('url', from): the least i >= from where "url" starts, or -1.
UrlAt(t, i) == At(t, i) = "u" /\ At(t, i + 1) = "r" /\ At(t, i + 2) = "l"

IndexOfUrl(t, from) ==
  LET hits == {i \in Max(from, 0)..(Len(t) - 3) : UrlAt(t, i)}
  IN  IF hits = {} THEN -1 ELSE CHOOSE i \in hits : \A j \in hits : i <= j

----------------------------------------------------------------------------
(* parseURLs *)

closingToken(c) ==
  CASE c = "(" -> ")"
    [] c = "\"" -> "\""
    [] c = "'" -> "'"
    [] OTHER -> Undefined

RECURSIVE skipWhitespace(_, _)
skipWhitespace(t, i) ==
  IF At(t, i) \in Whitespace THEN 1 + skipWhitespace(t, i + 1) ELSE 0

\* The guard of the outer while: index = text.indexOf('url', index), > 0.
WhileFound(i) == i > 0

ScanSearch ==
  /\ spc = "search"
  /\ LET found == IndexOfUrl(text, index)
     IN  /\ index' = found
         /\ spc' = IF WhileFound(found) THEN "open" ELSE "done"
  /\ UNCHANGED <<text, stack, urls, start, end, steps, pluginVars, passVars>>

\* The outer loop's body up to the capture loop.
ScanOpen ==
  /\ spc = "open"
  /\ steps' = steps + 1
  /\ LET i1 == index + 3
         i2 == i1 + skipWhitespace(text, i1)
     IN  IF At(text, i2) # "("
           THEN /\ index' = i2
                /\ spc' = "search"
                /\ UNCHANGED <<stack, start, end>>
           ELSE LET i3 == i2 + 1
                    i4 == i3 + skipWhitespace(text, i3)
                    quoted == At(text, i4) \in {"'", "\""}
                    i5 == IF quoted THEN i4 + 1 ELSE i4
                    i6 == i5 + skipWhitespace(text, i5)
                IN  /\ stack' = IF quoted
                                  THEN stack \o <<"(", At(text, i4)>>
                                  ELSE Append(stack, "(")
                    /\ index' = i6
                    /\ start' = i6
                    /\ end' = i6
                    /\ spc' = "capture"
  /\ UNCHANGED <<text, urls, pluginVars, passVars>>

\* A capture loop that looks at the stack only, not at the end of the text.
CaptureWhileOpen == Len(stack) > 0

CaptureGuard == Len(stack) > 0 /\ index < Len(text)

\* Whether the capture loop takes text[index] as the closing token.
Closes(c, stk) == c = closingToken(stk[Len(stk)])

\* One iteration of the capture loop.
ScanCapture ==
  /\ spc = "capture"
  /\ CaptureGuard
  /\ steps' = steps + 1
  /\ IF Closes(At(text, index), stack)
       THEN /\ stack' = SubSeq(stack, 1, Len(stack) - 1)
            /\ index' = index + skipWhitespace(text, index) + 1
            /\ end' = end
       ELSE /\ stack' = stack
            /\ index' = index + 1
            /\ end' = end + 1
  /\ UNCHANGED <<text, urls, start, spc, pluginVars, passVars>>

\* The capture loop is over: urls.push(text.slice(start, end).trim()).
ScanPush ==
  /\ spc = "capture"
  /\ ~CaptureGuard
  /\ urls' = Append(urls, Trim(Slice(text, start, end)))
  /\ spc' = "search"
  /\ UNCHANGED <<text, index, stack, start, end, steps, pluginVars, passVars>>

\* The whole of parseURLs, for its callers.
RECURSIVE ScanRun(_, _, _, _, _, _, _)
ScanRun(t, pc, i, stk, us, s, e) ==
  CASE pc = "search" ->
         LET found == IndexOfUrl(t, i)
         IN  IF WhileFound(found) THEN ScanRun(t, "open", found, stk, us, s, e) ELSE us
    [] pc = "open" ->
         LET i1 == i + 3
             i2 == i1 + skipWhitespace(t, i1)
         IN  IF At(t, i2) # "("
               THEN ScanRun(t, "search", i2, stk, us, s, e)
               ELSE LET i3 == i2 + 1
                        i4 == i3 + skipWhitespace(t, i3)
                        quoted == At(t, i4) \in {"'", "\""}
                        i5 == IF quoted THEN i4 + 1 ELSE i4
                        i6 == i5 + skipWhitespace(t, i5)
                        stk2 == IF quoted THEN stk \o <<"(", At(t, i4)>>
                                          ELSE Append(stk, "(")
                    IN  ScanRun(t, "capture", i6, stk2, us, i6, i6)
    [] OTHER ->
         IF Len(stk) > 0 /\ i < Len(t)
           THEN IF Closes(At(t, i), stk)
                  THEN ScanRun(t, "capture", i + skipWhitespace(t, i) + 1,
                               SubSeq(stk, 1, Len(stk) - 1), us, s, e)
                  ELSE ScanRun(t, "capture", i + 1, stk, us, s, e + 1)
           ELSE ScanRun(t, "search", i, stk, Append(us, Trim(Slice(t, s, e))), s, e)

parseURLs(t) == ScanRun(t, "search", 0, <<>>, <<>>, 0, 0)

----------------------------------------------------------------------------
(* Values the scanner's specification leaves the plugin's state at, and back *)

NoOptions == [template |-> "none"]
NoTree == [head |-> <<>>, body |-> <<>>]
NoElement == [nodeName |-> "undefined"]

NoPass ==
  [result |-> "none", matched |-> {}, modified |-> FALSE, wroteHtml |-> FALSE,
   writes |-> <<>>]

NoHtml == [present |-> FALSE, head |-> <<>>, body |-> <<>>]

PassIdle ==
  /\ outputCache = {}
  /\ ledger = <<>>
  /\ disk = [html |-> NoHtml, assets |-> <<>>]
  /\ mtime = <<>>
  /\ last = NoPass
  /\ passes = 0

PluginIdle ==
  /\ options = NoOptions
  /\ template = NoTree
  /\ cssOutput = <<>>
  /\ jsOutput = <<>>
  /\ document = NoTree
  /\ linkIndex = 0
  /\ scriptIndex = 0
  /\ element = NoElement
  /\ hpc = "idle"
  /\ assetQueue = <<>>
  /\ PassIdle

ScanIdle ==
  /\ text = <<>>
  /\ index = 0
  /\ stack = <<>>
  /\ urls = <<>>
  /\ start = 0
  /\ end = 0
  /\ spc = "idle"
  /\ steps = 0

----------------------------------------------------------------------------
(* The texts scanned *)

Fragments == {<<"u", "r", "l">>, <<"(">>, <<")">>, <<"'">>, <<" ">>, <<"a">>}

RECURSIVE PartsUpTo(_)
PartsUpTo(n) ==
  IF n = 0 THEN {<<>>}
  ELSE LET prev == PartsUpTo(n - 1)
       IN  prev \cup {p \o f : p \in prev, f \in Fragments}

UrlOpen == <<"u", "r", "l", "(">>

\* One url(...) token: optional whitespace after "(", an optional pair of
\* quotes around the payload, optional whitespace before ")".
Token(wsOpen, quote, payload, wsClose) ==
  UrlOpen \o wsOpen \o quote \o payload \o quote \o wsClose \o <<")">>

Background == <<"b", "a", "c", "k", "g", "r", "o", "u", "n", "d", ":", " ">>
Prefixes == {<<>>, Background}
Separators == {<<" ">>, <<" ", ",", " ">>}
Blanks == {<<>>, <<" ">>}
Quotes == {<<>>, <<"'">>, <<"\"">>}
Payloads == {<<"a", "/", "b", ".", "p", "n", "g">>, <<"c", ".", "p", "n", "g">>}

Tokens ==
  {[text |-> Token(o, q, p, c), payload |-> p] :
     o \in Blanks, q \in Quotes, p \in Payloads, c \in Blanks}

\* Texts made of one or two well-formed tokens, with the payloads in order.
WellFormedTexts ==
  {[text |-> pre \o t.text, payloads |-> <<t.payload>>] :
     pre \in Prefixes, t \in Tokens}
  \cup
  {[text |-> pre \o t1.text \o sep \o t2.text,
    payloads |-> <<t1.payload, t2.payload>>] :
     pre \in Prefixes, t1 \in Tokens, sep \in Separators, t2 \in Tokens}

\* background: url( 'a/b.png' ) , url(c.png)
SpecExample ==
  Background
    \o Token(<<" ">>, <<"'">>, <<"a", "/", "b", ".", "p", "n", "g">>, <<" ">>)
    \o <<" ", ",", " ">>
    \o Token(<<>>, <<>>, <<"c", ".", "p", "n", "g">>, <<>>)

\* Payloads with a bracket or a quote opened and closed inside them.
NestedPayloads ==
  {<<"a", "(", "b", ")", "c">>, <<"(", "a", ")">>, <<"a", "\"", ")", "\"", "b">>}

NestedTexts ==
  {[text |-> <<"a", " ">> \o Token(<<>>, q, p, <<>>), payloads |-> <<p>>] :
     q \in {<<>>, <<"'">>}, p \in NestedPayloads}

ScanTexts ==
  PartsUpTo(MaxParts)
    \cup {w.text : w \in WellFormedTexts}
    \cup {w.text : w \in NestedTexts}

----------------------------------------------------------------------------
(* Specification of the scanner *)

ScanInit ==
  /\ text \in ScanTexts
  /\ index = 0
  /\ stack = <<>>
  /\ urls = <<>>
  /\ start = 0
  /\ end = 0
  /\ spc = "search"
  /\ steps = 0
  /\ PluginIdle

ScanNext == ScanSearch \/ ScanOpen \/ ScanCapture \/ ScanPush

SpecScan == ScanInit /\ [][ScanNext]_vars

\* parseURLs is sequential code: a step that can be taken is taken.
SpecScanFair == SpecScan /\ WF_vars(ScanNext)

ScanDone == spc = "done"

\* The step machine returns what the function returns.
ScanAgrees == ScanDone => urls = parseURLs(text)

----------------------------------------------------------------------------
(* Claims about the scanner *)

\* C5: for a text made of well-formed url(...) tokens, at any position of
\* the text, parseURLs returns exactly the payloads in order of occurrence,
\* without quotes or surrounding whitespace; the text
\* background: url( 'a/b.png' ) , url(c.png) is one of these texts.
C5_ExtractsPayloads ==
  ScanDone => \A w \in WellFormedTexts : text = w.text => urls = w.payloads

\* C6: a payload with a bracket or quote opened and closed inside it is
\* captured whole: the capture ends at the token's own closing token.
C6_NestedCapturedWhole ==
  ScanDone => \A w \in NestedTexts : text = w.text => urls = w.payloads

\* C7: parseURLs terminates on every text, the loops run at most as many
\* times as the text is long, and while the scan goes on the index never
\* moves backwards (the search that ends the scan leaves indexOf's result,
\* -1 or 0, in index).
C7_Terminates ==
  /\ <>ScanDone
  /\ [](steps <= Len(text) /\ index <= Len(text))
  /\ [][spc' # "done" => index' >= index]_vars

\* A scan of a text with an unterminated url( and an open quote is over.
C7_Witness ==
  /\ ScanDone
  /\ text = <<"a", "u", "r", "l", "(", "'">>
  /\ stack # <<>>
  /\ steps > 0

----------------------------------------------------------------------------
(* Paths and option values *)

\* A path or URL is [dir, name, ext]: the directory's segments, the file's
\* name without its extension, and the extension: dist/main.css is
\* [dir |-> <<"dist">>, name |-> "main", ext |-> ".css"].
File(dir, name, ext) == [dir |-> dir, name |-> name, ext |-> ext]

\* path.basename(p)
basename(p) == File(<<>>, p.name, p.ext)

\* Path normalisation, as path.resolve and path.join do it: "." is dropped
\* and ".." drops the segment before it.
RECURSIVE NormalizeFrom(_, _)
NormalizeFrom(done, rest) ==
  IF rest = <<>> THEN done
  ELSE IF Head(rest) = "." THEN NormalizeFrom(done, Tail(rest))
  ELSE IF Head(rest) = ".."
    THEN NormalizeFrom(IF Len(done) > 0 /\ done[Len(done)] # ""
                         THEN SubSeq(done, 1, Len(done) - 1)
                         ELSE done,
                       Tail(rest))
  ELSE NormalizeFrom(Append(done, Head(rest)), Tail(rest))

Normalize(dir) == NormalizeFrom(<<>>, dir)

\* path.resolve(base, p) and path.join(base, p) for a relative p.
resolve(base, p) == File(Normalize(base \o p.dir), p.name, p.ext)
join(base, p) == File(Normalize(base \o p.dir), p.name, p.ext)

\* path.dirname(p)
dirname(p) == p.dir

\* An option left out is undefined; JavaScript takes undefined, false and
\* "" as false.
Truthy(v) == v \notin {Undefined, "false", ""}

\* cond && attr, as collect() keeps or drops it.
AndAttr(cond, attr) == IF cond THEN <<attr>> ELSE <<>>

RECURSIVE collect(_)
collect(values) ==
  IF values = <<>> THEN <<>> ELSE Head(values) \o collect(Tail(values))

Attr(name, value) == [name |-> name, value |-> value]

HasAttr(node, name) == \E i \in 1..Len(node.attrs) : node.attrs[i].name = name

AttrValue(node, name) ==
  LET i == CHOOSE i \in 1..Len(node.attrs) : node.attrs[i].name = name
  IN  node.attrs[i].value

----------------------------------------------------------------------------
(* Elements *)

\* namespaceURI of the elements parse() builds.
HtmlNamespace == "http://www.w3.org/1999/xhtml"

createElement(parentNode, tagName, attrs) ==
  [nodeName |-> tagName, tagName |-> tagName, attrs |-> attrs,
   namespaceURI |-> "", parentNode |-> parentNode]

\* An element of the template, as parse() builds it.
Parsed(parentNode, tagName, attrs) ==
  [nodeName |-> tagName, tagName |-> tagName, attrs |-> attrs,
   namespaceURI |-> HtmlNamespace, parentNode |-> parentNode]

ParsedText(parentNode) == [nodeName |-> "#text", parentNode |-> parentNode]

\* childNodes[i]: undefined outside the array.
ChildAt(childNodes, i) ==
  IF i >= 0 /\ i < Len(childNodes) THEN childNodes[i + 1] ELSE NoElement

isElement(node) == node.nodeName \notin {"undefined", "#comment", "#text"}
isScript(node) == isElement(node) /\ node.tagName = "script"
isLinkOrStyle(node) == isElement(node) /\ node.tagName \in {"style", "link"}

\* predicate(node), the predicate given by name.
Test(predicate, node) ==
  IF predicate = "isScript" THEN isScript(node) ELSE isLinkOrStyle(node)

\* await calculateIntegrityHash(filePath, integrity), the read succeeding.
calculateIntegrityHash(filePath, integrity) ==
  [algorithm |-> integrity, digestOf |-> filePath]

\* publicPath ? ... : ...; an undefined or empty publicPath has no segments.
HasPublicPath(o) == o.publicPath # <<>>

\* The URL both createLinkElement and createScriptElement compute.
OutputURL(o, outputPath) ==
  LET absOutputPath == resolve(o.basedir, outputPath)
      filename == basename(absOutputPath)
  IN  IF HasPublicPath(o) THEN join(o.publicPath, filename) ELSE filename

useModuleType(o) == o.format = "esm"

createLinkElement(o, outputPath, parentNode) ==
  createElement(parentNode, "link", collect(<<
    <<Attr("href", OutputURL(o, outputPath))>>,
    <<Attr("rel", "stylesheet")>>,
    AndAttr(Truthy(o.crossorigin), Attr("crossorigin", o.crossorigin)),
    AndAttr(Truthy(o.integrity),
            Attr("integrity",
                 calculateIntegrityHash(resolve(o.basedir, outputPath), o.integrity)))
  >>))

\* A createScriptElement that attaches defer whatever the module type.
AttachDeferAlways(moduleType, defer) == Truthy(defer)

\* Whether createScriptElement attaches defer.
AttachDefer(moduleType, defer) == ~moduleType /\ Truthy(defer)

createScriptElement(o, outputPath, parentNode) ==
  createElement(parentNode, "script", collect(<<
    <<Attr("src", OutputURL(o, outputPath))>>,
    AndAttr(useModuleType(o), Attr("type", "module")),
    AndAttr(AttachDefer(useModuleType(o), o.defer), Attr("defer", "")),
    AndAttr(Truthy(o.crossorigin), Attr("crossorigin", o.crossorigin)),
    AndAttr(Truthy(o.integrity),
            Attr("integrity",
                 calculateIntegrityHash(resolve(o.basedir, outputPath), o.integrity)))
  >>))

----------------------------------------------------------------------------
(* Placement *)

\* The loop of findLastChildIndex, from i down to 0.
RECURSIVE FindLastFrom(_, _, _)
FindLastFrom(childNodes, predicate, i) ==
  IF i < 0 THEN 0
  ELSE IF Test(predicate, ChildAt(childNodes, i)) THEN i
  ELSE FindLastFrom(childNodes, predicate, i - 1)

\* A search that stops at the first child of the kind, not the last.
findFirstChildIndex(childNodes, predicate) ==
  LET hits == {i \in 0..(Len(childNodes) - 1) : Test(predicate, ChildAt(childNodes, i))}
  IN  IF hits = {} THEN 0 ELSE CHOOSE i \in hits : \A j \in hits : i <= j

findLastChildIndex(childNodes, predicate) ==
  FindLastFrom(childNodes, predicate, Len(childNodes))

\* Array.prototype.findIndex: the first index the predicate holds at, or -1.
findIndex(childNodes, predicate) ==
  LET hits == {i \in 0..(Len(childNodes) - 1) : Test(predicate, ChildAt(childNodes, i))}
  IN  IF hits = {} THEN -1 ELSE CHOOSE i \in hits : \A j \in hits : i <= j

\* Where Array.prototype.splice(at, 0, ...) starts: a negative index counts
\* from the end, and the result is kept within the array.
SpliceStart(childNodes, at) ==
  IF at < 0 THEN Max(Len(childNodes) + at, 0) ELSE Min(at, Len(childNodes))

\* childNodes.splice(at, 0, ...items)
splice(childNodes, at, items) ==
  LET from == SpliceStart(childNodes, at)
  IN  SubSeq(childNodes, 1, from) \o items \o SubSeq(childNodes, from + 1, Len(childNodes))

\* const linkIndex
LinkIndex(o, head) ==
  IF o.linkPosition = "below"
    THEN findLastChildIndex(head, "isLinkOrStyle") + 1
    ELSE findIndex(head, "isLinkOrStyle")

\* scriptPlacement.startsWith('head'), scriptPlacement.endsWith('below')
ScriptParent(o) ==
  IF o.scriptPlacement \in {"head-above", "head-below"} THEN "head" ELSE "body"

ScriptBelow(o) == o.scriptPlacement \in {"head-below", "body-below"}

\* const scriptIndex
ScriptIndex(o, childNodes) ==
  IF ScriptBelow(o)
    THEN findLastChildIndex(childNodes, "isScript") + 1
    ELSE findIndex(childNodes, "isScript")

\* cssOutput.map(createLinkElement), jsOutput.map(createScriptElement)
Links(o, css) == [i \in 1..Len(css) |-> createLinkElement(o, css[i], "head")]
Scripts(o, js) == [i \in 1..Len(js) |-> createScriptElement(o, js[i], ScriptParent(o))]

\* Lines 315-320: the links are spliced into <head>.
PlaceLinks(o, tree, css) ==
  LET li == LinkIndex(o, tree.head)
  IN  [head |-> splice(tree.head, li, Links(o, css)),
       body |-> tree.body,
       linkIndex |-> li]

\* Lines 322-326: the scripts are spliced into the script parent.
PlaceScripts(o, tree, js) ==
  LET parent == IF ScriptParent(o) = "head" THEN tree.head ELSE tree.body
      si == ScriptIndex(o, parent)
      parent1 == splice(parent, si, Scripts(o, js))
  IN  [head |-> IF ScriptParent(o) = "head" THEN parent1 ELSE tree.head,
       body |-> IF ScriptParent(o) = "head" THEN tree.body ELSE parent1,
       scriptIndex |-> si]

\* Tag synthesis and the two splices: the tree that is serialized.
Place(o, tree, css, js) ==
  LET linked == PlaceLinks(o, tree, css)
      placed == PlaceScripts(o, linked, js)
  IN  [head |-> placed.head,
       body |-> placed.body,
       linkIndex |-> linked.linkIndex,
       scriptIndex |-> placed.scriptIndex]

----------------------------------------------------------------------------
(* Options, templates and build outputs *)

\* The options as htmlPlugin and setup default them.
DefaultOptions ==
  [template |-> File(<<"src">>, "index", ".html"),
   filename |-> File(<<>>, "index", ".html"),
   basedir |-> <<"", "work">>,
   outdir |-> <<"dist">>,
   entries |-> {"main", "app"},
   crossorigin |-> Undefined,
   defer |-> Undefined,
   format |-> Undefined,
   ignoreAssets |-> "false",
   integrity |-> Undefined,
   linkPosition |-> "below",
   scriptPlacement |-> "head-below",
   publicPath |-> <<>>]

EmitPositions == {"above", "below"}
TagPlacements == {"head-above", "head-below", "body-above", "body-below"}

SeqsUpTo(S, n) == UNION {[1..k -> S] : k \in 0..n}

HeadNodes ==
  {Parsed("head", "link", <<Attr("href", File(<<>>, "a", ".css"))>>),
   Parsed("head", "style", <<>>),
   Parsed("head", "script", <<Attr("src", File(<<>>, "lib", ".js"))>>),
   Parsed("head", "title", <<>>),
   ParsedText("head")}

BodyNodes ==
  {Parsed("body", "script", <<Attr("src", File(<<>>, "lib", ".js"))>>),
   Parsed("body", "div", <<>>)}

MainCss == File(<<"dist">>, "main", ".css")
AppCss == File(<<"dist">>, "app", ".css")
MainJs == File(<<"dist">>, "main", ".js")
AppJs == File(<<"dist">>, "app", ".js")

----------------------------------------------------------------------------
(* Specification of one emission's tag placement *)

PlaceOutputs ==
  {<<<<MainCss, AppCss>>, <<MainJs, AppJs>>>>,
   <<<<MainCss>>, <<MainJs>>>>,
   <<<<>>, <<MainJs>>>>,
   <<<<MainCss>>, <<>>>>}

PlaceInit ==
  /\ ScanIdle
  /\ options \in {[DefaultOptions EXCEPT !.linkPosition = lp, !.scriptPlacement = sp] :
                    lp \in EmitPositions, sp \in TagPlacements}
  /\ template \in {[head |-> h, body |-> b] :
                     h \in SeqsUpTo(HeadNodes, MaxHead), b \in SeqsUpTo(BodyNodes, MaxBody)}
  /\ \E out \in PlaceOutputs : cssOutput = out[1] /\ jsOutput = out[2]
  /\ document = NoTree
  /\ linkIndex = 0
  /\ scriptIndex = 0
  /\ element = NoElement
  /\ hpc = "setup"
  /\ assetQueue = <<>>
  /\ PassIdle

\* Lines 284-320 of the handler: the elements are created and the links
\* are spliced in.
SpliceLinks ==
  /\ hpc = "setup"
  /\ LET linked == PlaceLinks(options, template, cssOutput)
     IN  /\ document' = [head |-> linked.head, body |-> linked.body]
         /\ linkIndex' = linked.linkIndex
  /\ hpc' = "linked"
  /\ UNCHANGED <<scanVars, passVars, options, template, cssOutput, jsOutput,
                 scriptIndex, element, assetQueue>>

\* Lines 322-326 of the handler: the scripts are spliced in.
SpliceScripts ==
  /\ hpc = "linked"
  /\ LET placed == PlaceScripts(options, document, jsOutput)
     IN  /\ document' = [head |-> placed.head, body |-> placed.body]
         /\ scriptIndex' = placed.scriptIndex
  /\ hpc' = "placed"
  /\ UNCHANGED <<scanVars, passVars, options, template, cssOutput, jsOutput,
                 linkIndex, element, assetQueue>>

PlaceNext == SpliceLinks \/ SpliceScripts

SpecPlace == PlaceInit /\ [][PlaceNext]_vars

----------------------------------------------------------------------------
(* Specification of createScriptElement *)

SynthInit ==
  /\ ScanIdle
  /\ options \in {[DefaultOptions EXCEPT !.format = f, !.defer = d,
                                         !.scriptPlacement = sp, !.crossorigin = c,
                                         !.integrity = g, !.publicPath = pp] :
                    f \in {"esm", "iife", "cjs", Undefined},
                    d \in {"true", "false", Undefined},
                    sp \in TagPlacements,
                    c \in {Undefined, "anonymous"},
                    g \in {Undefined, "sha256"},
                    pp \in {<<>>, <<"", "public">>}}
  /\ template = NoTree
  /\ cssOutput = <<>>
  /\ jsOutput \in {<<MainJs>>, <<MainJs, AppJs>>}
  /\ document = NoTree
  /\ linkIndex = 0
  /\ scriptIndex = 0
  /\ element = NoElement
  /\ hpc = "setup"
  /\ assetQueue = <<>>
  /\ PassIdle

\* jsOutput.map(filePath => createScriptElement({...})), one call of it.
CreateScript ==
  /\ hpc \in {"setup", "created"}
  /\ \E i \in 1..Len(jsOutput) :
       element' = createScriptElement(options, jsOutput[i], ScriptParent(options))
  /\ hpc' = "created"
  /\ UNCHANGED <<scanVars, passVars, options, template, cssOutput, jsOutput,
                 document, linkIndex, scriptIndex, assetQueue>>

SynthNext == CreateScript

SpecSynth == SynthInit /\ [][SynthNext]_vars

----------------------------------------------------------------------------
(* Claims about placement and synthesis *)

\* An element createElement built, not one of the template.
Synthesized(node) == isElement(node) /\ node.namespaceURI = ""
FromTemplate(node) == ~Synthesized(node)

HasKind(childNodes, predicate) ==
  \E i \in 1..Len(childNodes) : Test(predicate, childNodes[i])

ScriptParentOf(tree) == IF ScriptParent(options) = "head" THEN tree.head ELSE tree.body

\* The tags lead the parent's children: they were inserted at index 0.
AtFront(childNodes, run) == SubSeq(childNodes, 1, Min(Len(run), Len(childNodes))) = run

\* C8: with no <link>/<style> in the template's <head>, the links are
\* inserted at index 0, and with no <script> in the script parent, the
\* scripts are inserted at index 0, under "above" and under "below",
\* whatever other children the parent has.
C8_IndexZeroWithoutTags ==
  /\ (hpc = "linked" /\ ~HasKind(template.head, "isLinkOrStyle")) =>
       AtFront(document.head, Links(options, cssOutput))
  /\ (hpc = "placed" /\ ~HasKind(ScriptParentOf(template), "isScript")) =>
       AtFront(ScriptParentOf(document), Scripts(options, jsOutput))

\* The 1-based position of the last child of the template that is of the kind.
LastOfKind(childNodes, predicate) ==
  LET hits == {i \in 1..Len(childNodes) :
                 FromTemplate(childNodes[i]) /\ Test(predicate, childNodes[i])}
  IN  CHOOSE i \in hits : \A j \in hits : j <= i

\* The run sits right behind the last child of the template of the kind.
RunBehindLast(childNodes, predicate, run) ==
  LET at == LastOfKind(childNodes, predicate)
  IN  SubSeq(childNodes, at + 1, Min(at + Len(run), Len(childNodes))) = run

C10_ModuleWithoutDefer ==
  (hpc = "created" /\ options.format = "esm") =>
    /\ HasAttr(element, "type")
    /\ AttrValue(element, "type") = "module"
    /\ ~HasAttr(element, "defer")

\* A script was created for an ESM build with defer: true.
C10_Witness ==
  /\ hpc = "created"
  /\ options.format = "esm"
  /\ options.defer = "true"
  /\ element.tagName = "script"

\* C11: when the format is not ESM and the scripts go into <head>, a
\* synthesized <script> carries defer unless the defer option is false: an
\* option left undefined counts as true.
C11_HeadDefersByDefault ==
  (hpc = "created" /\ options.format # "esm" /\ ScriptParent(options) = "head") =>
    (HasAttr(element, "defer") <=> options.defer # "false")

----------------------------------------------------------------------------
(* Asset discovery and rebasing *)

\* A URL of the template: a path and what follows it from the first "?" or
\* "#" on.
Url(dir, name, ext, suffix) == [dir |-> dir, name |-> name, ext |-> ext, suffix |-> suffix]

\* getUrl(node): the place of the first href or src among the attributes, 0
\* when there is none.
getUrl(node) ==
  IF isElement(node) /\ \E i \in 1..Len(node.attrs) : node.attrs[i].name \in {"href", "src"}
    THEN CHOOSE i \in 1..Len(node.attrs) :
           /\ node.attrs[i].name \in {"href", "src"}
           /\ \A j \in 1..(i - 1) : node.attrs[j].name \notin {"href", "src"}
    ELSE 0

\* Segments that end with ":" before a "//", and that start with "data:".
SchemeSegments == {"https:", "http:"}
DataSegments == {"data:image"}

IncludesScheme(dir) ==
  \E i \in 1..(Len(dir) - 1) : dir[i] \in SchemeSegments /\ dir[i + 1] = ""

isAbsoluteOrURL(src) ==
  \/ (src.dir # <<>> /\ src.dir[1] = "")
  \/ IncludesScheme(src.dir)
  \/ (IF src.dir # <<>> THEN src.dir[1] ELSE src.name) \in DataSegments

\* new URL(basename, publicPath).href: the base's last path segment gives way.
URLJoin(publicPath, file) ==
  File(IF Len(publicPath) > 3 THEN SubSeq(publicPath, 1, Len(publicPath) - 1)
                              ELSE publicPath,
       file.name, file.ext)

rebaseAssetURL(inputURL, templatePath, publicPath) ==
  LET url == File(inputURL.dir, inputURL.name, inputURL.ext)
      base == basename(url)
      rebased == IF publicPath # <<>>
                   THEN IF IncludesScheme(publicPath)
                          THEN URLJoin(publicPath, base)
                          ELSE join(publicPath, base)
                   ELSE base
  IN  [basename |-> base,
       inputPath |-> resolve(dirname(templatePath), url),
       rebasedURL |-> Url(rebased.dir, rebased.name, rebased.ext, inputURL.suffix)]

TemplatePath(o) == resolve(o.basedir, o.template)
AbsOutDir(o) == Normalize(o.basedir \o o.outdir)

\* if (!url || isAbsoluteOrURL(url.value)) continue, negated.
IsLocal(node) ==
  getUrl(node) # 0 /\ ~isAbsoluteOrURL(node.attrs[getUrl(node)].value)

\* url.value = rebasedURL
RebaseTag(o, node) ==
  LET i == getUrl(node)
      r == rebaseAssetURL(node.attrs[i].value, TemplatePath(o), o.publicPath)
  IN  [node EXCEPT !.attrs[i].value = r.rebasedURL]

\* assets.push([inputPath, path.resolve(absOutDir, basename)])
AssetOf(o, node) ==
  LET r == rebaseAssetURL(node.attrs[getUrl(node)].value, TemplatePath(o), o.publicPath)
  IN  <<r.inputPath, resolve(AbsOutDir(o), r.basename)>>

RECURSIVE AssetsOfTags(_, _, _)
AssetsOfTags(o, childNodes, nodeName) ==
  IF childNodes = <<>> THEN <<>>
  ELSE (IF Head(childNodes).nodeName = nodeName /\ IsLocal(Head(childNodes))
          THEN <<AssetOf(o, Head(childNodes))>>
          ELSE <<>>)
       \o AssetsOfTags(o, Tail(childNodes), nodeName)

RebaseTags(o, childNodes, nodeNames) ==
  [i \in 1..Len(childNodes) |->
     IF childNodes[i].nodeName \in nodeNames /\ IsLocal(childNodes[i])
       THEN RebaseTag(o, childNodes[i])
       ELSE childNodes[i]]

----------------------------------------------------------------------------
(* The url()s of a <style> text. The text and the URLs in it are sequences
   of characters, as parseURLs reads them. *)

\* Whether pat stands in t at the 0-based index i.
StartsWithAt(t, pat, i) ==
  i >= 0 /\ i + Len(pat) <= Len(t) /\ SubSeq(t, i + 1, i + Len(pat)) = pat

\* String.prototype.indexOf(pat)
IndexOf(t, pat) ==
  LET hits == {i \in 0..(Len(t) - Len(pat)) : StartsWithAt(t, pat, i)}
  IN  IF hits = {} THEN -1 ELSE CHOOSE i \in hits : \A j \in hits : i <= j

\* String.prototype.lastIndexOf(pat)
LastIndexOf(t, pat) ==
  LET hits == {i \in 0..(Len(t) - Len(pat)) : StartsWithAt(t, pat, i)}
  IN  IF hits = {} THEN -1 ELSE CHOOSE i \in hits : \A j \in hits : j <= i

\* String.prototype.includes(pat)
Includes(t, pat) == IndexOf(t, pat) >= 0

\* String.prototype.replace(pat, by) with a string pattern: the first
\* occurrence only (the texts hold no "$", so by is taken as it is).
Replace(t, pat, by) ==
  LET i == IndexOf(t, pat)
  IN  IF i < 0 THEN t
      ELSE SubSeq(t, 1, i) \o by \o SubSeq(t, i + Len(pat) + 1, Len(t))

\* isAbsoluteOrURL(src) of a URL of a style text.
isAbsoluteOrURLText(src) ==
  \/ StartsWithAt(src, <<"/">>, 0)
  \/ Includes(src, <<":", "/", "/">>)
  \/ StartsWithAt(src, <<"d", "a", "t", "a", ":">>, 0)

\* path.basename(url): what follows the last "/", trailing "/"s put aside.
RECURSIVE BasenameText(_)
BasenameText(url) ==
  IF url # <<>> /\ url[Len(url)] = "/"
    THEN BasenameText(SubSeq(url, 1, Len(url) - 1))
    ELSE SubSeq(url, LastIndexOf(url, <<"/">>) + 2, Len(url))

\* path.join(publicPath, basename), for a publicPath without "." segments.
JoinText(publicPath, base) ==
  IF publicPath[Len(publicPath)] = "/"
    THEN publicPath \o base
    ELSE publicPath \o <<"/">> \o base

\* new URL(basename, publicPath).href: the last path segment of the base
\* gives way; a base that is an origin only gets the "/".
URLHrefText(base, publicPath) ==
  LET slash == LastIndexOf(publicPath, <<"/">>)
      origin == IndexOf(publicPath, <<":", "/", "/">>)
  IN  IF slash = origin + 2
        THEN publicPath \o <<"/">> \o base
        ELSE SubSeq(publicPath, 1, slash + 1) \o base

\* The characters of the publicPath option.
PublicPathText(publicPath) ==
  CASE publicPath = <<>> -> <<>>
    [] publicPath = <<"", "public">> -> <<"/", "p", "u", "b", "l", "i", "c">>

\* path.resolve(base, rel) for a relative rel without "." segments: rel
\* under base.
ResolveText(base, rel) == [base |-> base, rel |-> rel]

\* rebaseAssetURL(url, templatePath, publicPath) for a URL of a style text.
rebaseAssetURLText(inputURL, templatePath, publicPath) ==
  LET queryPos == IndexOf(inputURL, <<"?">>)
      hashPos == IndexOf(inputURL, <<"#">>)
      pathEnd == IF queryPos < 0 THEN hashPos
                 ELSE IF hashPos < 0 THEN queryPos
                 ELSE Min(queryPos, hashPos)
      url == IF pathEnd < 0 THEN inputURL ELSE Slice(inputURL, 0, pathEnd)
      base == BasenameText(url)
      rebased == IF publicPath # <<>>
                   THEN IF Includes(publicPath, <<":", "/", "/">>)
                          THEN URLHrefText(base, publicPath)
                          ELSE JoinText(publicPath, base)
                   ELSE base
  IN  [basename |-> base,
       inputPath |-> ResolveText(dirname(templatePath), url),
       rebasedURL |-> IF pathEnd < 0 THEN rebased
                      ELSE rebased \o Slice(inputURL, pathEnd, Len(inputURL))]

\* A <style> of the template with its text child: value is text.value.
StyleNode(value) ==
  [nodeName |-> "style", tagName |-> "style", attrs |-> <<>>,
   parentNode |-> "head", namespaceURI |-> HtmlNamespace, value |-> value]

\* isElement(tag) && tag.childNodes.find(isTextNode)
HasText(node) == isElement(node) /\ "value" \in DOMAIN node

\* Lines 242-253: the loop over parseURLs(text.value), for the URLs left.
RECURSIVE RebaseStyleUrls(_, _, _, _)
RebaseStyleUrls(o, value, found, queued) ==
  IF found = <<>> THEN [value |-> value, assets |-> queued]
  ELSE LET url == Head(found)
       IN  IF url = <<>> \/ isAbsoluteOrURLText(url)
             THEN RebaseStyleUrls(o, value, Tail(found), queued)
             ELSE LET r == rebaseAssetURLText(url, TemplatePath(o),
                                              PublicPathText(o.publicPath))
                  IN  RebaseStyleUrls(
                        o, Replace(value, url, r.rebasedURL), Tail(found),
                        Append(queued, <<r.inputPath, ResolveText(AbsOutDir(o), r.basename)>>))

RebaseStyle(o, value) == RebaseStyleUrls(o, value, parseURLs(value), <<>>)

\* Lines 239-254: the loop over the <style>s of <head>.
RebaseStyles(o, childNodes) ==
  [i \in 1..Len(childNodes) |->
     IF childNodes[i].nodeName = "style" /\ HasText(childNodes[i])
       THEN [childNodes[i] EXCEPT !.value = RebaseStyle(o, childNodes[i].value).value]
       ELSE childNodes[i]]

RECURSIVE AssetsOfStyles(_, _)
AssetsOfStyles(o, childNodes) ==
  IF childNodes = <<>> THEN <<>>
  ELSE (IF Head(childNodes).nodeName = "style" /\ HasText(Head(childNodes))
          THEN RebaseStyle(o, Head(childNodes).value).assets
          ELSE <<>>)
       \o AssetsOfStyles(o, Tail(childNodes))

\* Lines 217-255: the tree with its local URLs rebased, and the assets.
Discover(o, tree) ==
  IF Truthy(o.ignoreAssets)
    THEN [head |-> tree.head, body |-> tree.body, assets |-> <<>>]
    ELSE [head |-> RebaseStyles(o, RebaseTags(o, tree.head, {"link", "script"})),
          body |-> RebaseTags(o, tree.body, {"script"}),
          assets |-> AssetsOfTags(o, tree.head, "link")
                       \o AssetsOfTags(o, tree.head, "script")
                       \o AssetsOfTags(o, tree.body, "script")
                       \o AssetsOfStyles(o, tree.head)]

----------------------------------------------------------------------------
(* Specification of asset discovery *)

\* A <link> of the template with a URL.
LocalLink(dir, name, ext) ==
  Parsed("head", "link", <<Attr("rel", "icon"), Attr("href", Url(dir, name, ext, ""))>>)

CatPng == <<"c", "a", "t", ".", "p", "n", "g">>

\* The URLs of the style texts: local ones, one with a query, and ones that
\* are an absolute path, hold "://" or start with "data:".
StyleUrls ==
  {CatPng,
   <<"i", "m", "g", "/">> \o CatPng,
   CatPng \o <<"?", "v">>,
   <<"/", "a", "/">> \o CatPng,
   <<"h", "t", "t", "p", ":", "/", "/", "h", "/">> \o CatPng,
   <<"d", "a", "t", "a", ":">> \o CatPng}

\* A url(...) token around a URL, with or without quotes.
StyleTokens ==
  {[open |-> UrlOpen \o q, payload |-> u, close |-> q \o <<")">>] :
     q \in {<<>>, <<"'">>}, u \in StyleUrls}

TokenText(tok) == tok.open \o tok.payload \o tok.close

StyleLead == <<"a", "{">>
StyleTrail == <<"}">>

\* The texts of a <style>: a rule with one or two url(...) tokens.
StyleTexts ==
  {[text |-> StyleLead \o TokenText(t) \o StyleTrail, tokens |-> <<t>>] :
     t \in StyleTokens}
  \cup
  {[text |-> StyleLead \o TokenText(t1) \o <<" ">> \o TokenText(t2) \o StyleTrail,
    tokens |-> <<t1, t2>>] :
     t1 \in StyleTokens, t2 \in StyleTokens}

\* The tags beside the <style>: a local one and ones that are skipped.
AssetTags ==
  {LocalLink(<<"img">>, "logo", ".png"),
   LocalLink(<<"https:", "", "cdn">>, "logo", ".png"),
   LocalLink(<<"data:image">>, "png", ""),
   Parsed("head", "script", <<Attr("src", Url(<<"", "js">>, "lib", ".js", ""))>>)}

AssetsInit ==
  /\ ScanIdle
  /\ options \in {[DefaultOptions EXCEPT !.publicPath = pp] :
                    pp \in {<<>>, <<"", "public">>}}
  /\ template \in {[head |-> <<tag, StyleNode(w.text)>>, body |-> <<>>] :
                     tag \in AssetTags, w \in StyleTexts}
  /\ cssOutput = <<>>
  /\ jsOutput = <<>>
  /\ document = NoTree
  /\ linkIndex = 0
  /\ scriptIndex = 0
  /\ element = NoElement
  /\ hpc = "setup"
  /\ assetQueue = <<>>
  /\ PassIdle

\* Lines 217-255 of the handler: asset discovery.
DiscoverAssets ==
  /\ hpc = "setup"
  /\ \E found \in {Discover(options, template)} :
       /\ document' = [head |-> found.head, body |-> found.body]
       /\ assetQueue' = found.assets
  /\ hpc' = "discovered"
  /\ UNCHANGED <<scanVars, passVars, options, template, cssOutput, jsOutput,
                 linkIndex, scriptIndex, element>>

AssetsNext == DiscoverAssets

SpecAssets == AssetsInit /\ [][AssetsNext]_vars

----------------------------------------------------------------------------
(* Claims about asset discovery *)

EndsWith(t, pat) == StartsWithAt(t, pat, Len(t) - Len(pat))

\* The tags of a list of children whose URL the pass skips.
SkippedTags(childNodes, nodeNames) ==
  {i \in 1..Len(childNodes) :
     /\ childNodes[i].nodeName \in nodeNames
     /\ getUrl(childNodes[i]) # 0
     /\ ~IsLocal(childNodes[i])}

LocalTags(childNodes, nodeNames) ==
  {i \in 1..Len(childNodes) :
     childNodes[i].nodeName \in nodeNames /\ IsLocal(childNodes[i])}

\* The <style>s with a text, and the text of this model a style text is.
StylesOf(childNodes) ==
  {i \in 1..Len(childNodes) :
     childNodes[i].nodeName = "style" /\ HasText(childNodes[i])}

TextOf(value) == CHOOSE w \in StyleTexts : w.text = value

\* The token at place k of a style text stands in value as tok: a first token
\* behind the lead, a last token before the trail.
TokenStands(w, k, tok, value) ==
  /\ k = 1 => StartsWithAt(value, StyleLead \o TokenText(tok), 0)
  /\ k = Len(w.tokens) => EndsWith(value, TokenText(tok) \o StyleTrail)

\* C12: a URL that is an absolute path, holds "://" or starts with "data:"
\* is left as it is, in the attribute of a head <link>, a head or body
\* <script> and in the text of a head <style>, and no pair is queued for it:
\* the pairs are those of the local URLs.
C12_SkippedUntouched ==
  hpc = "discovered" =>
    /\ \A i \in SkippedTags(template.head, {"link", "script"}) :
         document.head[i] = template.head[i]
    /\ \A i \in SkippedTags(template.body, {"script"}) :
         document.body[i] = template.body[i]
    /\ \A i \in StylesOf(template.head) :
         LET w == TextOf(template.head[i].value)
         IN  \A k \in 1..Len(w.tokens) :
               isAbsoluteOrURLText(w.tokens[k].payload) =>
                 TokenStands(w, k, w.tokens[k], document.head[i].value)
    /\ Len(assetQueue) =
         Cardinality(LocalTags(template.head, {"link", "script"}))
           + Cardinality(LocalTags(template.body, {"script"}))
           + Cardinality({<<i, k>> \in StylesOf(template.head) \X (1..2) :
                LET w == TextOf(template.head[i].value)
                IN  k <= Len(w.tokens) /\ ~isAbsoluteOrURLText(w.tokens[k].payload)})

\* A token with its URL rebased.
Rebased(o, tok) ==
  [tok EXCEPT !.payload =
     rebaseAssetURLText(tok.payload, TemplatePath(o), PublicPathText(o.publicPath)).rebasedURL]

\* C13: after asset discovery every local url() of a <style> text stands in
\* the text with its URL replaced by the rebased URL, once: no occurrence
\* keeps the original URL and none is rewritten twice.
C13_EachOccurrenceRebased ==
  hpc = "discovered" =>
    \A i \in StylesOf(template.head) :
      LET w == TextOf(template.head[i].value)
      IN  /\ parseURLs(w.text) = [k \in 1..Len(w.tokens) |-> w.tokens[k].payload]
          /\ \A k \in 1..Len(w.tokens) :
                ~isAbsoluteOrURLText(w.tokens[k].payload) =>
                  TokenStands(w, k, Rebased(options, w.tokens[k]), document.head[i].value)

----------------------------------------------------------------------------
(* Output matching and change detection *)

\* entries.includes(path.basename(o, path.extname(o)))
Matches(o, output) == output.name \in o.entries

RECURSIVE Filter(_, _, _)
Filter(o, outputs, kind) ==
  IF outputs = <<>> THEN <<>>
  ELSE (IF CASE kind = "entry" -> Matches(o, Head(outputs))
             [] OTHER -> Head(outputs).ext = kind
          THEN <<Head(outputs)>>
          ELSE <<>>)
       \o Filter(o, Tail(outputs), kind)

CssOutput(o, metafile) == Filter(o, Filter(o, metafile, "entry"), ".css")
JsOutput(o, metafile) == Filter(o, Filter(o, metafile, "entry"), ".js")

Range(seq) == {seq[i] : i \in 1..Len(seq)}

\* A change detection with the first loop only: removals go unnoticed.
DetectAdditions(cache, currentOutputs) ==
  LET added == currentOutputs \ cache
  IN  [modified |-> added # {}, cache |-> cache \cup added]

\* Lines 265-278: the two loops over currentOutputs and over outputCache.
DetectChange(cache, currentOutputs) ==
  LET added == currentOutputs \ cache
      cache1 == cache \cup added
      removed == cache1 \ currentOutputs
  IN  [modified |-> added # {} \/ removed # {},
       cache |-> cache1 \ removed]

----------------------------------------------------------------------------
(* Emission *)

\* One call of the function cachedCopyFile returns, up to its copyFile:
\* whether fsp.copyFile is called, and the ledger it leaves. The outcome is
\* "stat" when fsp.stat rejects.
CopyFile(led, mt, input, outcome) ==
  IF outcome = "stat" THEN [copies |-> FALSE, ledger |-> led]
  ELSE IF led[input] = mt[input] THEN [copies |-> FALSE, ledger |-> led]
  ELSE [copies |-> TRUE, ledger |-> [led EXCEPT ![input] = mt[input]]]

\* assets.map(paths => copyFile(...paths)): the calls run on in the order
\* of the list. The places in the list of the calls that copy, and the ledger.
RECURSIVE CopyAll(_, _, _, _, _, _)
CopyAll(assets, outcome, mt, i, led, performed) ==
  IF i > Len(assets) THEN [ledger |-> led, performed |-> performed]
  ELSE LET c == CopyFile(led, mt, assets[i][1], outcome[i])
       IN  CopyAll(assets, outcome, mt, i + 1, c.ledger,
                   IF c.copies THEN Append(performed, i) ELSE performed)

HtmlPath(o) == resolve(AbsOutDir(o), o.filename)

\* The inputs and the targets of a list of assets.
Inputs(assets) == {assets[i][1] : i \in 1..Len(assets)}
Targets(assets) == {assets[i][2] : i \in 1..Len(assets)}

NoFile == File(<<>>, "", "")
NoCopy == [from |-> NoFile, mtime |-> 0]

CopyOutcomes == {"ok", "stat", "copy"}
\* "rejects": fsp.mkdir or fsp.writeFile rejects, and no HTML is written.
HtmlOutcomes == {"ok", "rejects"}

\* The files the operations of a pass write to: the HTML file, and the
\* target of every copy that is made.
Writes(o, assets, performed) ==
  <<HtmlPath(o)>> \o [k \in 1..Len(performed) |-> assets[performed[k]][2]]

----------------------------------------------------------------------------
(* Specification of the plugin across passes *)

BuildOutputs == <<MainCss, MainJs, File(<<"dist">>, "chunk", ".js")>>

\* The reports of a build: the outputs it lists, in their order.
Metafiles ==
  {SelectSeq(BuildOutputs, LAMBDA out : out \in S \cup {BuildOutputs[3]}) :
     S \in SUBSET {MainCss, MainJs}}

PassTemplates ==
  { \* one asset, with a query, beside a tag that is no asset
    [head |-> <<LocalLink(<<"https:", "", "cdn">>, "site", ".css"),
                Parsed("head", "title", <<>>)>>,
     body |-> <<Parsed("body", "script", <<Attr("src", Url(<<"..", "js">>, "lib", ".js", "?v=1"))>>)>>],
    \* two assets of one file name in two directories
    [head |-> <<LocalLink(<<"a">>, "logo", ".png"), LocalLink(<<"b">>, "logo", ".png")>>,
     body |-> <<>>],
    \* one asset referred to twice
    [head |-> <<LocalLink(<<>>, "logo", ".png"), LocalLink(<<>>, "logo", ".png")>>,
     body |-> <<>>] }

Init ==
  /\ ScanIdle
  /\ options = [DefaultOptions EXCEPT !.integrity = "sha256"]
  /\ template \in PassTemplates
  /\ cssOutput = <<>>
  /\ jsOutput = <<>>
  /\ document = NoTree
  /\ linkIndex = 0
  /\ scriptIndex = 0
  /\ element = NoElement
  /\ hpc = "ready"
  /\ assetQueue = <<>>
  /\ outputCache = {}
  /\ \E assets \in {Discover(options, template).assets} :
       /\ ledger = [p \in Inputs(assets) |-> 0]
       /\ disk = [html |-> NoHtml, assets |-> [p \in Targets(assets) |-> NoCopy]]
       /\ mtime = [p \in Inputs(assets) |-> 1]
  /\ last = NoPass
  /\ passes = 0

\* An asset of the template is modified between two builds: its
\* modification time becomes the next time after those of all the assets.
Touch ==
  /\ \E p \in DOMAIN mtime, now \in 1..MaxMtime :
       /\ \A q \in DOMAIN mtime : mtime[q] < now
       /\ \E q \in DOMAIN mtime : mtime[q] = now - 1
       /\ mtime' = [mtime EXCEPT ![p] = now]
  /\ UNCHANGED <<scanVars, pluginVars, outputCache, ledger, disk, last, passes>>

\* build.onEnd with a result that has no metafile: the handler throws.
OnEndNoMetafile ==
  /\ passes < MaxPasses
  /\ passes' = passes + 1
  /\ last' = [NoPass EXCEPT !.result = "threw"]
  /\ UNCHANGED <<scanVars, pluginVars, outputCache, ledger, disk, mtime>>

\* The copy the asset at place i of the list leaves at its target.
CopyOf(assets, mt, i) == [from |-> assets[i][1], mtime |-> mt[assets[i][1]]]

\* What the copies that succeed (done) can leave on disk: each target holds
\* the copy of one of the calls that wrote it (two calls that write one
\* target race), and the other targets are as they were.
FilesAfter(assets, mt, done, files) ==
  {f \in [DOMAIN files -> {files[p] : p \in DOMAIN files}
                             \cup {CopyOf(assets, mt, i) : i \in done}] :
     \A p \in DOMAIN files :
       IF \E i \in done : assets[i][2] = p
         THEN \E i \in done : assets[i][2] = p /\ f[p] = CopyOf(assets, mt, i)
         ELSE f[p] = files[p]}

\* Lines 328-332, once the tree is placed and the copyFile calls have got
\* past their ledger: what the pass leaves.
Settle(o, assets, placed, copied, html, copy, mt, dsk, matched) ==
  LET done == {i \in Range(copied.performed) : copy[i] = "ok"}
      failed ==
        \/ html # "ok"
        \/ \E i \in 1..Len(assets) : copy[i] = "stat"
        \/ \E i \in Range(copied.performed) : copy[i] = "copy"
  IN  [document |-> [head |-> placed.head, body |-> placed.body],
       linkIndex |-> placed.linkIndex,
       scriptIndex |-> placed.scriptIndex,
       ledger |-> copied.ledger,
       html |-> IF html = "ok"
                  THEN [present |-> TRUE, head |-> placed.head, body |-> placed.body]
                  ELSE dsk.html,
       files |-> FilesAfter(assets, mt, done, dsk.assets),
       last |-> [result |-> IF failed THEN "failed" ELSE "ok",
                 matched |-> matched,
                 modified |-> TRUE,
                 wroteHtml |-> html = "ok",
                 writes |-> Writes(o, assets, copied.performed)]]

\* Lines 328-332, once the tree is placed: the writes.
Emit(o, assets, placed, html, copy, mt, led, dsk, matched) ==
  Settle(o, assets, placed, CopyAll(assets, copy, mt, 1, led, <<>>),
         html, copy, mt, dsk, matched)

\* Whether a read of calculateIntegrityHash can fail in this pass.
Hashes(o, matched) == Truthy(o.integrity) /\ matched # {}

\* build.onEnd with a metafile, the output file names unchanged: the
\* handler returns before tag synthesis.
OnEndUnmodified ==
  /\ passes < MaxPasses
  /\ passes' = passes + 1
  /\ \E metafile \in Metafiles :
     \E found \in {Discover(options, template)} :
     \E css \in {CssOutput(options, metafile)}, js \in {JsOutput(options, metafile)} :
     \E change \in {DetectChange(outputCache, Range(css \o js))} :
       /\ ~change.modified
       /\ cssOutput' = css
       /\ jsOutput' = js
       /\ outputCache' = change.cache
       /\ assetQueue' = found.assets
       /\ document' = [head |-> found.head, body |-> found.body]
       /\ last' = [result |-> "unmodified", matched |-> Range(css \o js),
                   modified |-> FALSE, wroteHtml |-> FALSE, writes |-> <<>>]
  /\ UNCHANGED <<scanVars, options, template, element, hpc, mtime,
                 linkIndex, scriptIndex, ledger, disk>>

\* build.onEnd with a metafile, the output file names changed, and a read
\* of calculateIntegrityHash fails: the handler rejects before any write.
OnEndHashFails ==
  /\ passes < MaxPasses
  /\ passes' = passes + 1
  /\ \E metafile \in Metafiles :
     \E found \in {Discover(options, template)} :
     \E css \in {CssOutput(options, metafile)}, js \in {JsOutput(options, metafile)} :
     \E change \in {DetectChange(outputCache, Range(css \o js))} :
       /\ change.modified
       /\ Hashes(options, Range(css \o js))
       /\ cssOutput' = css
       /\ jsOutput' = js
       /\ outputCache' = change.cache
       /\ assetQueue' = found.assets
       /\ document' = [head |-> found.head, body |-> found.body]
       /\ last' = [result |-> "failed", matched |-> Range(css \o js),
                   modified |-> TRUE, wroteHtml |-> FALSE, writes |-> <<>>]
  /\ UNCHANGED <<scanVars, options, template, element, hpc, mtime,
                 linkIndex, scriptIndex, ledger, disk>>

\* build.onEnd with a metafile, the output file names changed: the whole
\* handler. html is how mkdir and writeFile end, copy how each copyFile
\* call ends.
OnEndEmits ==
  /\ passes < MaxPasses
  /\ passes' = passes + 1
  /\ \E metafile \in Metafiles :
     \E found \in {Discover(options, template)} :
     \E css \in {CssOutput(options, metafile)}, js \in {JsOutput(options, metafile)} :
     \E change \in {DetectChange(outputCache, Range(css \o js))} :
       /\ change.modified
       /\ cssOutput' = css
       /\ jsOutput' = js
       /\ outputCache' = change.cache
       /\ assetQueue' = found.assets
       /\ \E placed \in {Place(options, found, css, js)} :
          \E html \in HtmlOutcomes, copy \in [1..Len(found.assets) -> CopyOutcomes] :
          \E e \in {Emit(options, found.assets, placed, html, copy, mtime, ledger,
                         disk, Range(css \o js))} :
            /\ document' = e.document
            /\ linkIndex' = e.linkIndex
            /\ scriptIndex' = e.scriptIndex
            /\ ledger' = e.ledger
            /\ \E files \in e.files : disk' = [html |-> e.html, assets |-> files]
            /\ last' = e.last
  /\ UNCHANGED <<scanVars, options, template, element, hpc, mtime>>

OnEnd == OnEndUnmodified \/ OnEndHashFails \/ OnEndEmits

Next == Touch \/ OnEndNoMetafile \/ OnEnd

Spec == Init /\ [][Next]_vars

----------------------------------------------------------------------------
(* Properties of the passes *)

\* The tag the plugin synthesizes for an output.
TagOf(output) ==
  IF output.ext = ".css"
    THEN createLinkElement(options, output, "head")
    ELSE createScriptElement(options, output, ScriptParent(options))

\* How often the tag of an output stands in an HTML file.
TagCount(html, output) ==
  Cardinality({i \in 1..Len(html.head) : html.head[i] = TagOf(output)})
    + Cardinality({i \in 1..Len(html.body) : html.body[i] = TagOf(output)})

\* The outputs whose tags an HTML file holds.
EmittedOutputs(html) == {output \in Range(BuildOutputs) : TagCount(html, output) > 0}

\* A step is a pass of the handler that got past its metafile check.
PassStep == passes' = passes + 1 /\ last'.result # "threw"

\* C1: of two consecutive passes that match the same CSS/JS outputs, the
\* second writes no HTML and copies no asset, and the HTML file on disk (when
\* there is one) holds the tag of each matched output exactly once.
C1_IdempotentReemission ==
  [][(PassStep /\ last.result \in {"ok", "failed", "unmodified"}
        /\ last'.matched = last.matched) =>
       /\ ~last'.wroteHtml
       /\ last'.writes = <<>>
       /\ disk' = disk
       /\ disk'.html.present =>
            \A output \in last'.matched : TagCount(disk'.html, output) = 1]_vars

\* C2: a pass goes on to tag synthesis and emission exactly when its matched
\* outputs differ from the Output Cache as the pass found it, the first pass
\* included; a pass whose matched outputs equal the cache writes nothing.
C2_ChangeDetection ==
  [][PassStep =>
       /\ last'.modified <=> last'.matched # outputCache
       /\ last'.matched # outputCache => last'.result \in {"ok", "failed"}
       /\ last'.matched = outputCache =>
            /\ last'.result = "unmodified"
            /\ ~last'.wroteHtml
            /\ last'.writes = <<>>
            /\ disk' = disk
            /\ ledger' = ledger
       /\ outputCache' = last'.matched]_vars

\* The first pass matched no output, against the empty cache, and wrote
\* nothing.
C2_Witness ==
  /\ passes = 1
  /\ last.result = "unmodified"
  /\ last.matched = {}
  /\ outputCache = {}
  /\ ~disk.html.present

\* C3: after any passes, those that fail with an I/O error included, the
\* Output Cache holds exactly the outputs whose tags are in the HTML the
\* last emission that wrote it left on disk.
C3_CacheIsLastEmission == outputCache = EmittedOutputs(disk.html)

\* C4: the file operations a pass issues (the write of the HTML file and
\* the copies that are made) go to pairwise distinct paths.
C4_DisjointWrites ==
  \A i, j \in 1..Len(last.writes) : i # j => last.writes[i] # last.writes[j]

\* The targets the template's assets with the input p are copied to, and
\* the inputs that are copied to the target q.
TargetsOf(p) ==
  LET queued == Discover(options, template).assets
  IN  {queued[i][2] : i \in {j \in 1..Len(queued) : queued[j][1] = p}}

InputsOf(q) ==
  LET queued == Discover(options, template).assets
  IN  {queued[i][1] : i \in {j \in 1..Len(queued) : queued[j][2] = q}}

\* C14: the ledger holds a modification time for an input, so that the copy
\* of the input at that time is skipped, only when a copy of the input at
\* that time has completed: a copy that failed is tried again. Stated for the
\* inputs that share their target with no other input, where the file on
\* disk tells which copy completed last.
C14_SkipOnlyAfterCopy ==
  \A p \in DOMAIN ledger :
    ledger[p] # 0 =>
      \A q \in TargetsOf(p) :
        InputsOf(q) = {p} => disk.assets[q] = [from |-> p, mtime |-> ledger[p]]

====
